---- MODULE Spec2Model ----
(***************************************************************************)
(* RectTextViewer of src/main.py: validation of a batch of rectangles      *)
(* (__init__), the grid encoder (to_array) and the grid decoder            *)
(* (from_array), as a state machine.                                       *)
(*                                                                         *)
(* A grid is a function [0..H-1 -> [0..W-1 -> Int]] (NumPy's 0-based       *)
(* arr[x, y]); a rectangle is a 4-tuple <<x1, y1, x2, y2>>, one-based and  *)
(* inclusive, x the row.  A label is a NumPy integer; "10 * n + v" is      *)
(* taken at the 64 bits NumPy gives it for grids of the default dtype      *)
(* (from_string) and, before NumPy 2, for the int8 grids of to_array.      *)
(* Every label of the bounded inputs below stays under 2^31, so label      *)
(* arithmetic is plain integer arithmetic.                                 *)
(***************************************************************************)
EXTENDS Integers, Sequences, FiniteSets, TLC

VARIABLES
    src,         \* "rects": the run starts from a batch; "grid": from a grid
    rectangles,  \* the batch handed to RectTextViewer(...)
    pc,          \* position of the run
    arr,         \* the grid handed to from_array
    arr_cp,      \* from_array's working copy
    rects,       \* from_array's dict label -> (x, y, _x, _y)
    iters,       \* finished iterations of from_array's while loop
    last,        \* origin, label, hole flag and bounds of the last iteration
    outcome,     \* how the run ended ("" while it runs)
    reported,    \* what the raised error lists (rectangles or labels)
    result       \* the rectangles of the viewer from_array returns

vars == <<src, rectangles, pc, arr, arr_cp, rects, iters, last, outcome, reported, result>>

(***************************************************************************)
(* Cell values.                                                            *)
(***************************************************************************)
EMPTY_FILLER_INT == -2

BOUND_FILLER_INT == -1

FILLERS_INT == {BOUND_FILLER_INT, EMPTY_FILLER_INT}

(***************************************************************************)
(* Grids.                                                                  *)
(***************************************************************************)
Height(g) == Cardinality(DOMAIN g)

Width(g) == Cardinality(DOMAIN g[0])

\* np.full((h, w), fill_value=v)
Full(h, w, v) == [x \in 0..(h - 1) |-> [y \in 0..(w - 1) |-> v]]

\* arr[xs, ys] = v for index sets xs, ys
Fill(g, xs, ys, v) ==
    [x \in DOMAIN g |-> [y \in DOMAIN g[x] |->
        IF x \in xs /\ y \in ys THEN v ELSE g[x][y]]]

NoGrid == Full(1, 1, EMPTY_FILLER_INT)

SeqMax(s, k) == CHOOSE m \in {s[i][k] : i \in 1..Len(s)} :
                    \A i \in 1..Len(s) : s[i][k] <= m

(***************************************************************************)
(* RectTextViewer.__init__                                                 *)
(***************************************************************************)
\* assert (rectangles > 0).all()
AllPositive(rs) == \A i \in 1..Len(rs) : \A k \in 1..4 : rs[i][k] > 0

\* bad_rects_mask
BadRect(r) == r[1] >= r[3] \/ r[2] >= r[4]

\* rectangles[bad_rects_mask]
SelectBad(rs) == SelectSeq(rs, BadRect)

\* The constructor: "AssertionError" (a bare assert, no message),
\* "ValueError" listing rectangles[bad_rects_mask], or "ok".
RectTextViewer_init(rs) ==
    IF ~AllPositive(rs) THEN [kind |-> "AssertionError", listed |-> <<>>]
    ELSE IF \E i \in 1..Len(rs) : BadRect(rs[i])
         THEN [kind |-> "ValueError", listed |-> SelectBad(rs)]
    ELSE [kind |-> "ok", listed |-> <<>>]

(***************************************************************************)
(* RectTextViewer.to_array                                                 *)
(***************************************************************************)
\* [int(s) for s in str(i)]
RECURSIVE Digits(_)
Digits(i) == IF i < 10 THEN <<i>> ELSE Digits(i \div 10) \o <<i % 10>>

\* The cells the four slice assignments of _BOUND_FILLER_INT write for
\* rectangle r (after x1 -= 1; y1 -= 1): arr[x1, y1: y2], arr[x2 - 1, y1: y2],
\* arr[x1: x2, y1], arr[x1: x2, y2 - 1].
OnFrame(r, x, y) ==
    LET x1 == r[1] - 1
        y1 == r[2] - 1
        x2 == r[3]
        y2 == r[4]
    IN  \/ x = x1 /\ y \in y1..(y2 - 1)
        \/ x = x2 - 1 /\ y \in y1..(y2 - 1)
        \/ x \in x1..(x2 - 1) /\ y = y1
        \/ x \in x1..(x2 - 1) /\ y = y2 - 1

\* The columns of arr[x1, y1: y1 + len(numbers)]: the slice is clipped to the
\* width w of the array.
LabelCols(r, i, w) ==
    {y \in (r[2] - 1)..(r[2] - 2 + Len(Digits(i))) : y < w}

\* The assignment arr[x1, y1: y1 + len(numbers)] = numbers raises when the
\* clipped slice is shorter than numbers.
LabelFits(r, i, w) == r[2] - 1 + Len(Digits(i)) <= w

\* The cells the label of rectangle r at position i is written to.
InLabel(r, i, w, x, y) == x = r[1] - 1 /\ y \in LabelCols(r, i, w)

\* The rectangles whose drawing writes cell (x, y).
Writers(rs, w, x, y, show_order) ==
    {i \in 1..Len(rs) :
        OnFrame(rs[i], x, y) \/ (show_order /\ InLabel(rs[i], i, w, x, y))}

\* Cell (x, y) after the loop over enumerate(self.rects, 1): the rectangles
\* are drawn in order, so the last one that writes the cell decides it, and
\* its label is written after its frame.
CellAfter(rs, w, x, y, show_order) ==
    LET ws == Writers(rs, w, x, y, show_order)
        i == CHOOSE m \in ws : \A e \in ws : e <= m
    IN  IF ws = {} THEN EMPTY_FILLER_INT
        ELSE IF show_order /\ InLabel(rs[i], i, w, x, y)
             THEN Digits(i)[y - (rs[i][2] - 1) + 1]
        ELSE BOUND_FILLER_INT

\* to_array of a constructed viewer.  kind is "ok", or names what NumPy
\* raises: "max of empty" (self.rects[:, 2].max() of an empty batch) or
\* "label does not fit" (the label assignment on a clipped slice).
to_array(rs, show_order) ==
    IF rs = <<>> THEN [kind |-> "max of empty", arr |-> NoGrid]
    ELSE LET xmax == SeqMax(rs, 3)
             ymax == SeqMax(rs, 4)
         IN  IF show_order /\ \E i \in 1..Len(rs) : ~LabelFits(rs[i], i, ymax)
             THEN [kind |-> "label does not fit", arr |-> NoGrid]
             ELSE [kind |-> "ok",
                   arr |-> [x \in 0..(xmax - 1) |-> [y \in 0..(ymax - 1) |->
                              CellAfter(rs, ymax, x, y, show_order)]]]

(***************************************************************************)
(* RectTextViewer.from_array                                               *)
(***************************************************************************)
Cells(g) == {g[x][y] : x \in DOMAIN g, y \in DOMAIN g[0]}

\* (uniqs == _EMPTY_FILLER_INT).all()
NoRectangles(g) == \A v \in Cells(g) : v = EMPTY_FILLER_INT

\* np.isin(uniqs, FILLERS_INT).all()
Unlabeled(g) == \A v \in Cells(g) : v \in FILLERS_INT

\* digits_inds of row x: np.nonzero(~np.isin(row, FILLERS_INT))[0]
DigitsInds(g, x) == {y \in DOMAIN g[x] : g[x][y] \notin FILLERS_INT}

SetMin(S) == CHOOSE m \in S : \A e \in S : m <= e

SetMax(S) == CHOOSE m \in S : \A e \in S : e <= m

\* The for/else over enumerate(arr_cp): the rows that hold a digit.
DigitRows(g) == {x \in DOMAIN g : DigitsInds(g, x) # {}}

OriginX(g) == SetMin(DigitRows(g))

OriginY(g) == SetMin(DigitsInds(g, OriginX(g)))

\* The loop "for _y in range(y + 1, W)" from column yy on, with the label n
\* read so far and the flag check_next_digits.  kind is "ok" (b is the value
\* _y ends with), "AssertionError" (assert not has_hole) or "not matched"
\* (the loop's else branch raises).
RECURSIVE RightFrom(_, _, _, _, _, _)
RightFrom(g, x, has_hole, yy, n, check_next_digits) ==
    IF yy >= Width(g)
    THEN [kind |-> IF has_hole THEN "not matched" ELSE "ok",
          b |-> Width(g) - 1, n |-> n]
    ELSE LET v == g[x][yy]
         IN  IF v = EMPTY_FILLER_INT
                \/ (v # BOUND_FILLER_INT /\ ~check_next_digits)
             THEN [kind |-> IF has_hole THEN "AssertionError" ELSE "ok",
                   b |-> yy - 1, n |-> n]
             ELSE LET n2 == IF check_next_digits /\ v # BOUND_FILLER_INT
                            THEN 10 * n + v ELSE n
                      c2 == check_next_digits /\ v # BOUND_FILLER_INT
                  IN  IF has_hole /\ g[x + 1][yy] = BOUND_FILLER_INT
                      THEN [kind |-> "ok", b |-> yy, n |-> n2]
                      ELSE RightFrom(g, x, has_hole, yy + 1, n2, c2)

\* The loop "for _x in range(x + 1, H)" from row xx on.
RECURSIVE BottomFrom(_, _, _, _)
BottomFrom(g, y, has_hole, xx) ==
    IF xx >= Height(g)
    THEN [kind |-> IF has_hole THEN "not matched" ELSE "ok", b |-> Height(g) - 1]
    ELSE IF g[xx][y] # BOUND_FILLER_INT
         THEN [kind |-> IF has_hole THEN "AssertionError" ELSE "ok", b |-> xx - 1]
    ELSE IF has_hole /\ g[xx][y + 1] = BOUND_FILLER_INT
         THEN [kind |-> "ok", b |-> xx]
    ELSE BottomFrom(g, y, has_hole, xx + 1)

\* ClearRegion with the origin row left out (x + 1: _x + 1).
ClearBelowOrigin(g, x, y, bx, by) == Fill(g, (x + 1)..bx, y..by, EMPTY_FILLER_INT)

\* The region arr_cp[x: _x + 1, y: _y + 1] set to _EMPTY_FILLER_INT.
ClearRegion(g, x, y, bx, by) == Fill(g, x..bx, y..by, EMPTY_FILLER_INT)

\* One iteration of the while loop on the working copy g, which holds a
\* digit: the origin, the hole test, both bound searches.
Iteration(g) ==
    LET x == OriginX(g)
        y == OriginY(g)
        none == [kind |-> "IndexError", x |-> x, y |-> y, n |-> g[x][y],
                 has_hole |-> FALSE, bx |-> x, by |-> y]
    IN  IF x + 1 >= Height(g) \/ y + 1 >= Width(g) THEN none
        ELSE LET has_hole == g[x + 1][y + 1] = EMPTY_FILLER_INT
                 right == RightFrom(g, x, has_hole, y + 1, g[x][y], TRUE)
                 bottom == BottomFrom(g, y, has_hole, x + 1)
                 it == [none EXCEPT !.has_hole = has_hole, !.n = right.n,
                                    !.by = right.b]
             IN  IF right.kind = "AssertionError"
                 THEN [it EXCEPT !.kind = "AssertionError (right)"]
                 ELSE IF right.kind = "not matched"
                 THEN [it EXCEPT !.kind = "not matched (at right)"]
                 ELSE IF bottom.kind = "AssertionError"
                 THEN [it EXCEPT !.kind = "AssertionError (bottom)", !.bx = bottom.b]
                 ELSE IF bottom.kind = "not matched"
                 THEN [it EXCEPT !.kind = "not matched (at bottom)", !.bx = bottom.b]
                 ELSE [it EXCEPT !.kind = "ok", !.bx = bottom.b]

\* rects[n] = (x, y, _x, _y)
Record(d, n, box) == [l \in DOMAIN d \cup {n} |-> IF l = n THEN box ELSE d[l]]

\* sorted(S) as a sequence
Sorted(S) ==
    [i \in 1..Cardinality(S) |->
        CHOOSE e \in S : Cardinality({f \in S : f < e}) = i - 1]

\* np.arange(numbers[0], numbers[-1] + 1)
AllNumbers(d) ==
    [k \in 1..(SetMax(DOMAIN d) - SetMin(DOMAIN d) + 1) |-> SetMin(DOMAIN d) + k - 1]

\* [a for a in all_numbers if a not in numbers]
MissingLabels(d) == SelectSeq(AllNumbers(d), LAMBDA a : a \notin DOMAIN d)

\* LabelGap with the range taken one short (numbers[-1] - numbers[0]).
LabelGapShort(d) ==
    Cardinality(DOMAIN d) # SetMax(DOMAIN d) - SetMin(DOMAIN d)

\* numbers.size != all_numbers.size
LabelGap(d) == Cardinality(DOMAIN d) # Len(AllNumbers(d))

\* np.array([rects[n] for n in numbers]) + 1
Candidate(d) ==
    LET numbers == Sorted(DOMAIN d)
    IN  [i \in 1..Len(numbers) |->
            LET box == d[numbers[i]]
            IN  <<box[1] + 1, box[2] + 1, box[3] + 1, box[4] + 1>>]

\* NumPy broadcasting of the shapes of a and b in "a != b".
Broadcastable(a, b) ==
    /\ Height(a) = Height(b) \/ Height(a) = 1 \/ Height(b) = 1
    /\ Width(a) = Width(b) \/ Width(a) = 1 \/ Width(b) = 1

At(g, x, y) == g[IF Height(g) = 1 THEN 0 ELSE x][IF Width(g) = 1 THEN 0 ELSE y]

\* diff_mask.any() for broadcastable a, b
DiffAny(a, b) ==
    LET h == IF Height(a) > Height(b) THEN Height(a) ELSE Height(b)
        w == IF Width(a) > Width(b) THEN Width(a) ELSE Width(b)
    IN  \E x \in 0..(h - 1), y \in 0..(w - 1) : At(a, x, y) # At(b, x, y)

\* The tail of from_array once no label is missing: the constructor, the
\* re-encoding and the comparison with arr.
VerifyOutcome(d, g) ==
    LET cand == Candidate(d)
        built == RectTextViewer_init(cand)
        enc == to_array(cand, TRUE)
    IN  IF built.kind = "AssertionError" THEN "AssertionError (candidate)"
        ELSE IF built.kind = "ValueError" THEN "ValueError (candidate)"
        ELSE IF enc.kind # "ok" THEN enc.kind
        ELSE IF ~Broadcastable(enc.arr, g) THEN "shape error"
        ELSE IF DiffAny(enc.arr, g) THEN "mismatches found"
        ELSE "returned"

(***************************************************************************)
(* Inputs.                                                                 *)
(***************************************************************************)
MaxX == 5

MaxY == 4

MaxRects == 2

MaxRaw == 2

MaxCells == 8

\* Well-formed rectangles with rows in 1..mx and columns in 1..my.
Boxes(mx, my) ==
    {<<x1, y1, x2, y2>> : x1 \in 1..mx, y1 \in 1..my, x2 \in 1..mx, y2 \in 1..my}

WellFormed(r) == r[1] > 0 /\ r[2] > 0 /\ r[1] < r[3] /\ r[2] < r[4]

\* a and b share no cell (they may touch).
Disjoint(a, b) == a[3] < b[1] \/ b[3] < a[1] \/ a[4] < b[2] \/ b[4] < a[2]

\* a lies in the interior of b.
Inside(a, b) == b[1] < a[1] /\ a[3] < b[3] /\ b[2] < a[2] /\ a[4] < b[4]

NonOverlapping(a, b) == Disjoint(a, b) \/ Inside(a, b) \/ Inside(b, a)

\* A valid RectangleSet: well-formed, pairwise non-overlapping.
Valid(rs) ==
    /\ \A i \in 1..Len(rs) : WellFormed(rs[i])
    /\ \A i \in 1..Len(rs), j \in 1..Len(rs) : i < j => NonOverlapping(rs[i], rs[j])

SmallBatches ==
    {rs \in UNION {[1..k -> Boxes(MaxX, MaxY)] : k \in 0..MaxRects} : Valid(rs)}

\* Batches the constructor has to judge: coordinates from 0 on, any order.
RawBatches ==
    UNION {[1..k -> (0..MaxRaw) \X (0..MaxRaw) \X (0..MaxRaw) \X (0..MaxRaw)] : k \in 1..2}

\* nr rows of nc rectangles, each h high and w wide, numbered row by row.
Tiles(nr, nc, h, w) ==
    [k \in 1..(nr * nc) |->
        LET r == (k - 1) \div nc
            c == (k - 1) % nc
        IN  <<1 + r * h, 1 + c * w, (r + 1) * h, (c + 1) * w>>]

\* The batches of the doctests of to_array, from_array and to_string.
DocBatches ==
    { <<<<1, 1, 2, 3>>, <<3, 4, 6, 7>>, <<4, 1, 6, 2>>>>,
      <<<<1, 1, 3, 3>>, <<1, 5, 3, 7>>>>,
      <<<<1, 1, 2, 3>>, <<1, 4, 2, 8>>, <<3, 4, 6, 7>>, <<3, 1, 6, 2>>, <<3, 8, 7, 9>>>>,
      Tiles(5, 14, 2, 3),
      <<<<1, 1, 2, 3>>, <<3, 4, 7, 8>>, <<4, 1, 6, 2>>>> }

\* Long batches of narrow rectangles: labels of two and three digits.
TileBatches ==
    { Tiles(1, 11, 2, 2), Tiles(2, 6, 2, 2), Tiles(4, 3, 3, 3),
      Tiles(100, 1, 2, 2),
      Tiles(99, 1, 2, 3) \o <<<<199, 1, 200, 2>>>> }

Batches == SmallBatches \cup RawBatches \cup DocBatches \cup TileBatches

GridDigits == {1}

CellValues == FILLERS_INT \cup GridDigits

Shapes == {s \in (1..MaxCells) \X (1..MaxCells) : s[1] * s[2] <= MaxCells}

\* Every grid of at most MaxCells cells over CellValues.
SmallGrids ==
    UNION {[0..(s[1] - 1) -> [0..(s[2] - 1) -> CellValues]] : s \in Shapes}

DocGrids == {to_array(rs, TRUE).arr : rs \in DocBatches}

\* g with cell (x, y) set to v
WithCell(g, x, y, v) == Fill(g, {x}, {y}, v)

\* The grids of the two first doctests of from_array with one cell changed.
EditedGrids ==
    LET simple == to_array(<<<<1, 1, 3, 3>>, <<1, 5, 3, 7>>>>, TRUE).arr
        hard == to_array(<<<<1, 1, 2, 3>>, <<1, 4, 2, 8>>, <<3, 4, 6, 7>>,
                           <<3, 1, 6, 2>>, <<3, 8, 7, 9>>>>, TRUE).arr
    IN  UNION {{WithCell(g, x, y, v) :
                   x \in DOMAIN g, y \in DOMAIN g[0], v \in FILLERS_INT \cup 0..9} :
               g \in {simple, hard}}

Grids == SmallGrids \cup DocGrids \cup EditedGrids

(***************************************************************************)
(* The state machine.                                                      *)
(***************************************************************************)
NoIteration ==
    [kind |-> "", x |-> 0, y |-> 0, n |-> 0, has_hole |-> FALSE, bx |-> 0, by |-> 0]

Idle ==
    /\ arr_cp = NoGrid
    /\ rects = <<>>
    /\ iters = 0
    /\ last = NoIteration
    /\ outcome = ""
    /\ reported = <<>>
    /\ result = <<>>

InitRects ==
    /\ src = "rects"
    /\ rectangles \in Batches
    /\ pc = "new"
    /\ arr = NoGrid
    /\ Idle

InitGrid ==
    /\ src = "grid"
    /\ rectangles = <<>>
    /\ pc = "grid"
    /\ arr \in Grids
    /\ Idle

Init == InitRects \/ InitGrid

\* RectTextViewer(rectangles)
Construct ==
    /\ pc = "new"
    /\ LET c == RectTextViewer_init(rectangles)
       IN  /\ pc' = IF c.kind = "ok" THEN "constructed" ELSE "done"
           /\ outcome' = IF c.kind = "ok" THEN "" ELSE c.kind
           /\ reported' = c.listed
    /\ UNCHANGED <<src, rectangles, arr, arr_cp, rects, iters, last, result>>

\* vr.to_array(show_order=True)
ToArray ==
    /\ pc = "constructed"
    /\ LET enc == to_array(rectangles, TRUE)
       IN  /\ pc' = IF enc.kind = "ok" THEN "grid" ELSE "done"
           /\ outcome' = IF enc.kind = "ok" THEN "" ELSE enc.kind
           /\ arr' = IF enc.kind = "ok" THEN enc.arr ELSE arr
    /\ UNCHANGED <<src, rectangles, arr_cp, rects, iters, last, reported, result>>

\* from_array(arr) up to the while loop.
FromArray ==
    /\ pc = "grid"
    /\ IF NoRectangles(arr)
       THEN pc' = "done" /\ outcome' = "no rectangles found" /\ arr_cp' = arr_cp
       ELSE IF Unlabeled(arr)
       THEN pc' = "done" /\ outcome' = "all rectangles are unlabeled" /\ arr_cp' = arr_cp
       ELSE pc' = "while" /\ outcome' = "" /\ arr_cp' = arr
    /\ UNCHANGED <<src, rectangles, arr, rects, iters, last, reported, result>>

\* One pass of "while True": the loop ends when no row holds a digit.
While ==
    /\ pc = "while"
    /\ IF DigitRows(arr_cp) = {}
       THEN /\ pc' = "labels"
            /\ UNCHANGED <<arr_cp, rects, iters, last, outcome>>
       ELSE LET it == Iteration(arr_cp)
            IN  /\ last' = it
                /\ IF it.kind = "ok"
                   THEN /\ rects' = Record(rects, it.n, <<it.x, it.y, it.bx, it.by>>)
                        /\ arr_cp' = ClearRegion(arr_cp, it.x, it.y, it.bx, it.by)
                        /\ iters' = iters + 1
                        /\ pc' = "while"
                        /\ outcome' = ""
                   ELSE /\ pc' = "done"
                        /\ outcome' = it.kind
                        /\ UNCHANGED <<arr_cp, rects, iters>>
    /\ UNCHANGED <<src, rectangles, arr, reported, result>>

\* The check of the collected labels.
Labels ==
    /\ pc = "labels"
    /\ IF LabelGap(rects)
       THEN /\ pc' = "done"
            /\ outcome' = "labels not found"
            /\ reported' = MissingLabels(rects)
       ELSE /\ pc' = "verify"
            /\ UNCHANGED <<outcome, reported>>
    /\ UNCHANGED <<src, rectangles, arr, arr_cp, rects, iters, last, result>>

\* The candidate viewer, its re-encoding and the comparison.
Verify ==
    /\ pc = "verify"
    /\ pc' = "done"
    /\ outcome' = VerifyOutcome(rects, arr)
    /\ result' = IF outcome' = "returned" THEN Candidate(rects) ELSE <<>>
    /\ UNCHANGED <<src, rectangles, arr, arr_cp, rects, iters, last, reported>>

\* from_array alone, on grids of any content.
NextGrid == FromArray \/ While \/ Labels \/ Verify

SpecGrid == InitGrid /\ [][NextGrid]_vars

\* A batch is constructed, encoded and decoded again (as main() does); or a
\* grid is decoded.
Next == Construct \/ ToArray \/ FromArray \/ While \/ Labels \/ Verify

Spec == Init /\ [][Next]_vars

(***************************************************************************)
(* Properties.                                                             *)
(***************************************************************************)
\* The run started from a batch and to_array has produced arr.
Encoded == src = "rects" /\ arr # NoGrid

\* The batch was rejected by the constructor.
Rejected == src = "rects" /\ pc = "done" /\ arr = NoGrid
            /\ outcome \in {"AssertionError", "ValueError"}

AllDisjoint(rs) ==
    \A i \in 1..Len(rs), j \in 1..Len(rs) : i < j => Disjoint(rs[i], rs[j])

\* Every label stands in g digit by digit, with no digit right before or
\* right after it in its row.
LabelsDistinguishable(rs, g) ==
    \A i \in 1..Len(rs) :
        LET x == rs[i][1] - 1
            y == rs[i][2] - 1
            len == Len(Digits(i))
        IN  /\ y + len <= Width(g)
            /\ \A k \in 1..len : g[x][y + k - 1] = Digits(i)[k]
            /\ y + len < Width(g) => g[x][y + len] \in FILLERS_INT
            /\ y > 0 => g[x][y - 1] \in FILLERS_INT

DigitCount(g) ==
    Cardinality({c \in (DOMAIN g) \X (DOMAIN g[0]) : g[c[1]][c[2]] \notin FILLERS_INT})

\* The while loop ran to its end (no digit is left in the working copy).
LoopFinished ==
    pc \in {"labels", "verify", "done"} /\ iters > 0 /\ DigitRows(arr_cp) = {}

Collected == DOMAIN rects

Contiguous == Collected = SetMin(Collected)..SetMax(Collected)

\* C1: for a valid batch R whose labels are all distinguishable in the
\* encoded grid, from_array(to_array(R, show_order=True)) returns a viewer
\* of exactly R (same rectangles, same order).
RoundTrip ==
    (Encoded /\ pc = "done" /\ Valid(rectangles)
        /\ LabelsDistinguishable(rectangles, arr))
    => (outcome = "returned" /\ result = rectangles)

\* C2: whenever from_array(g) returns S, to_array(S, True) equals g cell by
\* cell; and whenever the re-encoded candidate differs from g, from_array
\* fails with the mismatch error and returns nothing.
SelfVerification ==
    (pc = "done" /\ outcome \in {"returned", "mismatches found", "shape error"})
    => IF to_array(Candidate(rects), TRUE).arr = arr
       THEN outcome = "returned" /\ result = Candidate(rects)
       ELSE outcome = "mismatches found" /\ result = <<>>

\* C3: once the while loop has finished, collected labels that are not the
\* whole range min..max make from_array fail with the label-gap error, whose
\* list holds exactly the integers of the range that were not collected; the
\* candidate is only built (pc = "verify") when no label is missing, and no
\* viewer is returned.
GapDetection ==
    /\ pc = "verify" => Contiguous
    /\ (pc = "done" /\ LoopFinished /\ ~Contiguous) =>
          /\ outcome = "labels not found"
          /\ result = <<>>
          /\ {reported[k] : k \in 1..Len(reported)}
                = (SetMin(Collected)..SetMax(Collected)) \ Collected
          /\ \A k \in 1..(Len(reported) - 1) : reported[k] < reported[k + 1]

\* C3's case: labels {1, 3} were collected and the error lists [2].
GapDetectionWitness ==
    pc = "done" /\ outcome = "labels not found" /\ Collected = {1, 3}
    /\ reported = <<2>>

\* C4: decoding to_array(R, True) for a valid R, the label recorded for the
\* rectangle whose top-left corner is the origin of an iteration is that
\* rectangle's own position: no digit of a neighbour's label is appended.
OwnLabel ==
    (Encoded /\ last.kind = "ok" /\ Valid(rectangles)) =>
        \A i \in 1..Len(rectangles) :
            (last.x = rectangles[i][1] - 1 /\ last.y = rectangles[i][2] - 1)
            => last.n = i

\* The outcomes the decoder declares: a viewer, or one of its error kinds.
DeclaredOutcomes ==
    {"returned", "no rectangles found", "all rectangles are unlabeled",
     "not matched (at right)", "not matched (at bottom)", "labels not found",
     "mismatches found", "ValueError (candidate)"}

\* C5: on every grid of Empty, Boundary and digit cells from_array returns a
\* viewer or fails with one of its declared errors, and the read of
\* arr_cp[x + 1, y + 1] is always inside the grid.
DecodeTotal ==
    (src = "grid" /\ pc = "done") => outcome \in DeclaredOutcomes

\* C6: the constructor fails exactly for the batches with an offending
\* rectangle (a non-positive coordinate, x1 >= x2 or y1 >= y2), and its error
\* lists every offending rectangle of the batch.
ValidationReportsAll ==
    (src = "rects" /\ pc # "new") =>
        LET offending == SelectSeq(rectangles, LAMBDA r : ~WellFormed(r))
        IN  IF offending = <<>> THEN ~Rejected
            ELSE Rejected /\ reported = offending

\* C7: decoding to_array(R, True) for a valid R with rectangle a inside
\* rectangle b, a's label is never erased from the working copy unless a has
\* been recorded (an entry of rects starts at a's corner).
NestedRecordedFirst ==
    (Encoded /\ pc \in {"while", "labels", "verify", "done"} /\ Valid(rectangles)) =>
        \A a \in 1..Len(rectangles), b \in 1..Len(rectangles) :
            (Inside(rectangles[a], rectangles[b])
                /\ arr_cp[rectangles[a][1] - 1][rectangles[a][2] - 1] = EMPTY_FILLER_INT)
            => \E l \in DOMAIN rects :
                  /\ rects[l][1] = rectangles[a][1] - 1
                  /\ rects[l][2] = rectangles[a][2] - 1

\* C8: decoding to_array(R, True) for a valid R of pairwise disjoint
\* (possibly touching) rectangles, neither "assert not has_hole" fails.
AssertionsHold ==
    (Encoded /\ Valid(rectangles) /\ AllDisjoint(rectangles))
    => outcome \notin {"AssertionError (right)", "AssertionError (bottom)"}

\* C9: to_array(show_order=True) writes the digits of position i only into
\* the top row of rectangle i, between its columns y1 and y2, and the write
\* never fails: the labelled grid differs from the unlabelled one only
\* inside a rectangle's own top row span.
LabelInOwnSpan ==
    (src = "rects" /\ pc \notin {"new", "constructed"} /\ ~Rejected) =>
        /\ outcome # "label does not fit"
        /\ Encoded =>
              LET plain == to_array(rectangles, FALSE).arr
              IN  \A x \in DOMAIN arr, y \in DOMAIN arr[0] :
                      arr[x][y] # plain[x][y] =>
                          \E i \in 1..Len(rectangles) :
                              /\ x = rectangles[i][1] - 1
                              /\ y \in (rectangles[i][2] - 1)..(rectangles[i][4] - 1)

\* C10: every iteration that does not raise ends with _y >= y and _x >= x
\* and clears its origin, so each finished iteration removes at least one
\* digit from the working copy: the loop makes at most as many iterations
\* as arr holds digits, and it ends with no digit left or with an error.
LoopBounded ==
    /\ last.kind = "ok" =>
          /\ last.by >= last.y
          /\ last.bx >= last.x
          /\ arr_cp[last.x][last.y] = EMPTY_FILLER_INT
    /\ pc \in {"while", "labels", "verify"} =>
          iters + DigitCount(arr_cp) <= DigitCount(arr)
    /\ pc \in {"labels", "verify"} => DigitCount(arr_cp) = 0
    /\ (pc = "done" /\ iters > 0 /\ DigitCount(arr_cp) > 0) =>
          outcome \in {"IndexError", "AssertionError (right)",
                       "AssertionError (bottom)", "not matched (at right)",
                       "not matched (at bottom)"}

\* C10's case: the loop has ended after five iterations on a grid with
\* more than five digits.
LoopBoundedWitness ==
    pc = "labels" /\ iters = 5 /\ DigitCount(arr) > 5

====
